---- MODULE Spec2Model ----
(***************************************************************************)
(* A model of the waveform editor of src/main.pyw (class PWLTool): the     *)
(* point list, the grid snap, the uniqueness search, the text codec with   *)
(* its debounce timer, the view window, the unit and grid settings and     *)
(* the snapshot load, as a state machine with one action per handler.      *)
(*                                                                          *)
(* Numbers.  The program computes with Python floats.  Every constant of    *)
(* the program is a decimal fraction (unit scales are powers of ten, the    *)
(* factors are 1e-6, 0.0001, 0.1, ...), so the model computes exactly, on   *)
(* decimal numbers m * 10^e held as records [m, e] with an integer          *)
(* mantissa that fits TLC's integers and has no trailing zero.  The         *)
(* inputs are chosen so that every intermediate result has such a           *)
(* mantissa: the model says nothing about binary rounding error.            *)
(***************************************************************************)
EXTENDS Integers, Sequences, FiniteSets, TLC

----------------------------------------------------------------------------
(* Decimal arithmetic *)

Pow10(n) == 10 ^ n

AbsInt(i) == IF i < 0 THEN -i ELSE i

\* the number of decimal digits of the integer i (0 for 0)
RECURSIVE NumDigits(_)
NumDigits(i) == IF i = 0 THEN 0 ELSE 1 + NumDigits(AbsInt(i) \div 10)

\* m * 10^e in canonical form: no trailing zero in the mantissa, zero is [0, 0]
RECURSIVE Norm(_, _)
Norm(m, e) ==
    IF m = 0 THEN [m |-> 0, e |-> 0]
    ELSE IF m % 10 = 0 THEN Norm(m \div 10, e + 1)
    ELSE [m |-> m, e |-> e]

D(m, e) == Norm(m, e)

Zero == D(0, 0)
One == D(1, 0)

\* the mantissa of a at the exponent e <= a.e
MantAt(a, e) == IF a.m = 0 THEN 0 ELSE a.m * Pow10(a.e - e)

MinInt(i, j) == IF i <= j THEN i ELSE j

Add(a, b) ==
    IF a.m = 0 THEN b
    ELSE IF b.m = 0 THEN a
    ELSE LET e == MinInt(a.e, b.e) IN Norm(MantAt(a, e) + MantAt(b, e), e)

Neg(a) == [m |-> -a.m, e |-> a.e]

Sub(a, b) == Add(a, Neg(b))

Mul(a, b) == Norm(a.m * b.m, a.e + b.e)

Abs(a) == [m |-> AbsInt(a.m), e |-> a.e]

Sign(a) == IF a.m > 0 THEN 1 ELSE IF a.m < 0 THEN -1 ELSE 0

\* a < b for non-negative a, b, without overflow: by order of magnitude first
LtMag(a, b) ==
    IF b.m = 0 THEN FALSE
    ELSE IF a.m = 0 THEN TRUE
    ELSE LET da == NumDigits(a.m) + a.e
             db == NumDigits(b.m) + b.e
         IN IF da # db THEN da < db
            ELSE LET e == MinInt(a.e, b.e) IN MantAt(a, e) < MantAt(b, e)

Lt(a, b) ==
    IF Sign(a) # Sign(b) THEN Sign(a) < Sign(b)
    ELSE IF Sign(a) >= 0 THEN LtMag(a, b)
    ELSE LtMag(Abs(b), Abs(a))

Le(a, b) == ~Lt(b, a)

Max(a, b) == IF Lt(a, b) THEN b ELSE a

\* a / b for b a power of ten (every unit scale is one)
DivPow10(a, b) == Norm(a.m, a.e - b.e)

\* Python's round(a / b) for b > 0: the nearest integer, a tie going to the
\* even one
RoundDiv(a, b) ==
    LET e == MinInt(a.e, b.e)
        n == MantAt(a, e)
        d == MantAt(b, e)
        q == n \div d
        r == n % d
    IN  IF 2 * r < d THEN q
        ELSE IF 2 * r > d THEN q + 1
        ELSE IF q % 2 = 0 THEN q ELSE q + 1

\* Python's min_offset / 2 and (a + b) / 2
Half(a) == Mul(a, D(5, -1))

\* Python's "%.6g": a rounded to 6 significant digits (a tie to the even digit)
Fmt6g(a) ==
    LET k == NumDigits(a.m) - 6
    IN  IF k <= 0 THEN a
        ELSE Norm(RoundDiv([m |-> a.m, e |-> 0], [m |-> Pow10(k), e |-> 0]), a.e + k)

----------------------------------------------------------------------------
(* Unit Registry: __init__, lines 19-35 ("us" and "uV", "uA" stand for the  *)
(* symbols written with the Greek letter mu)                                *)

time_prefixes ==
    [fs |-> D(1, -15), ps |-> D(1, -12), ns |-> D(1, -9),
     us |-> D(1, -6), ms |-> D(1, -3), s |-> D(1, 0)]

voltage_prefixes ==
    [uV |-> D(1, -6), mV |-> D(1, -3), V |-> D(1, 0), kV |-> D(1, 3)]

current_prefixes ==
    [pA |-> D(1, -12), nA |-> D(1, -9), uA |-> D(1, -6),
     mA |-> D(1, -3), A |-> D(1, 0)]

\* selected_point = None
None == -1

\* the sentinel of generate_pwl_text and the wrapper of the PWL command, as
\* token lists: a text buffer is [pre, suf, parts], the text "PWL(" if pre,
\* the whitespace-separated tokens parts, ")" if suf; a token is a number
\* (float() accepts it) or a word (float() raises ValueError)
Num(d) == [num |-> TRUE, val |-> d, word |-> ""]
Word(w) == [num |-> FALSE, val |-> Zero, word |-> w]
Text(pre, parts, suf) == [pre |-> pre, parts |-> parts, suf |-> suf]

NeedAtLeast2Points ==
    Text(FALSE, <<Word("Need"), Word("at"), Word("least"), Num(D(2, 0)),
                  Word("points")>>, FALSE)

----------------------------------------------------------------------------
(* The object's fields.  A method is an operator from the fields before     *)
(* the call (a record s) to the fields after it.                            *)

VARIABLES
    pwl_points,         \* list of <<time, value>> in SI units
    selected_point,     \* index into pwl_points (from 0), or None
    time_unit, value_unit, source_type,
    x_min, x_max, y_min, y_max,
    grid_snap_enabled, time_grid_size, value_grid_size,
    pwl_text,           \* content of the text widget
    after_calls,        \* the after(500, parse_pwl_text) calls pending in Tk:
                        \* records [mine, left], mine telling whether
                        \* _text_update_timer names the call, left the
                        \* tenths of a second until it is due
    updating_from_plot,
    pc,                 \* where generate_pwl_text stands: "idle" (not
                        \* running), "called", "writing" or "written"
    idle,               \* tenths of a second since the last KeyRelease in
                        \* the text widget, counted up to Quiet + 1
    burst,              \* number of KeyRelease events that came, each less
                        \* than Quiet after the one before, since the last
                        \* parse (counted up to MaxBurst)
    value_combo,        \* the source type whose unit symbols the value combo
                        \* box lists
    moves,              \* number of zooms, pans and range edits since the
                        \* window was last set as a whole (by __init__,
                        \* Load or Auto Scale)
    outcome             \* how the last handler ended: the title of the message
                        \* box it showed, "parsed" or "rejected" for
                        \* parse_pwl_text (which shows none), else "none"

vars ==
    <<pwl_points, selected_point, time_unit, value_unit, source_type,
      x_min, x_max, y_min, y_max,
      grid_snap_enabled, time_grid_size, value_grid_size,
      pwl_text, after_calls, updating_from_plot, pc, idle, burst,
      value_combo, moves, outcome>>

Self ==
    [pwl_points |-> pwl_points, selected_point |-> selected_point,
     time_unit |-> time_unit, value_unit |-> value_unit,
     source_type |-> source_type,
     x_min |-> x_min, x_max |-> x_max, y_min |-> y_min, y_max |-> y_max,
     grid_snap_enabled |-> grid_snap_enabled,
     time_grid_size |-> time_grid_size, value_grid_size |-> value_grid_size,
     pwl_text |-> pwl_text, after_calls |-> after_calls,
     updating_from_plot |-> updating_from_plot, pc |-> pc,
     idle |-> idle, burst |-> burst, value_combo |-> value_combo,
     moves |-> moves, outcome |-> "none"]

\* the fields become those of s
Becomes(s) ==
    /\ pwl_points' = s.pwl_points
    /\ selected_point' = s.selected_point
    /\ time_unit' = s.time_unit
    /\ value_unit' = s.value_unit
    /\ source_type' = s.source_type
    /\ x_min' = s.x_min
    /\ x_max' = s.x_max
    /\ y_min' = s.y_min
    /\ y_max' = s.y_max
    /\ grid_snap_enabled' = s.grid_snap_enabled
    /\ time_grid_size' = s.time_grid_size
    /\ value_grid_size' = s.value_grid_size
    /\ pwl_text' = s.pwl_text
    /\ after_calls' = s.after_calls
    /\ updating_from_plot' = s.updating_from_plot
    /\ pc' = s.pc
    /\ idle' = s.idle
    /\ burst' = s.burst
    /\ value_combo' = s.value_combo
    /\ moves' = s.moves
    /\ outcome' = s.outcome

time_scale(s) == time_prefixes[s.time_unit]

value_scale(s) ==
    IF s.source_type = "Voltage" THEN voltage_prefixes[s.value_unit]
    ELSE current_prefixes[s.value_unit]

\* the look-up of time_scale or value_scale raises KeyError
KeyError(s) ==
    \/ s.time_unit \notin DOMAIN time_prefixes
    \/ s.source_type = "Voltage" /\ s.value_unit \notin DOMAIN voltage_prefixes
    \/ s.source_type # "Voltage" /\ s.value_unit \notin DOMAIN current_prefixes

----------------------------------------------------------------------------
(* Sorting: list.sort(key=lambda x: x[0]) is stable *)

\* the place each point takes in the sorted list: after the points with a
\* smaller time and after the earlier points with the same time
RankByTime(points) ==
    [i \in 1..Len(points) |->
        1 + Cardinality({j \in 1..Len(points) :
                            \/ Lt(points[j][1], points[i][1])
                            \/ points[j][1] = points[i][1] /\ j < i})]

SortByTime(points) ==
    CHOOSE sorted \in
        {[k \in 1..Len(points) |-> points[CHOOSE i \in 1..Len(points) : rank[i] = k]] :
             rank \in {RankByTime(points)}} : TRUE

----------------------------------------------------------------------------
(* Grid Snap Engine *)

\* snap_to_grid rounding down to the grid line below (a faulty variant)
snap_to_grid_floor(s, time_display, value_display) ==
    IF ~s.grid_snap_enabled THEN <<time_display, value_display>>
    ELSE IF Le(s.time_grid_size, Zero) \/ Le(s.value_grid_size, Zero)
    THEN <<time_display, value_display>>
    ELSE LET snapped_time ==
                 Mul(D(RoundDiv(Sub(time_display, Half(s.time_grid_size)),
                                s.time_grid_size), 0),
                     s.time_grid_size)
             snapped_value ==
                 Mul(D(RoundDiv(Sub(value_display, Half(s.value_grid_size)),
                                s.value_grid_size), 0),
                     s.value_grid_size)
         IN  <<Max(Zero, snapped_time), snapped_value>>

\* snap_to_grid snapping to the middle of a grid cell (a faulty variant)
snap_to_grid_centre(s, time_display, value_display) ==
    IF ~s.grid_snap_enabled THEN <<time_display, value_display>>
    ELSE IF Le(s.time_grid_size, Zero) \/ Le(s.value_grid_size, Zero)
    THEN <<time_display, value_display>>
    ELSE LET snapped_time ==
                 Mul(Add(D(RoundDiv(time_display, s.time_grid_size), 0), D(5, -1)),
                     s.time_grid_size)
             snapped_value ==
                 Mul(Add(D(RoundDiv(value_display, s.value_grid_size), 0), D(5, -1)),
                     s.value_grid_size)
         IN  <<Max(Zero, snapped_time), snapped_value>>

\* snap_to_grid: <<time, value>> in display units
snap_to_grid(s, time_display, value_display) ==
    IF ~s.grid_snap_enabled THEN <<time_display, value_display>>
    ELSE IF Le(s.time_grid_size, Zero) \/ Le(s.value_grid_size, Zero)
    THEN <<time_display, value_display>>
    ELSE LET snapped_time ==
                 Mul(D(RoundDiv(time_display, s.time_grid_size), 0),
                     s.time_grid_size)
             snapped_value ==
                 Mul(D(RoundDiv(value_display, s.value_grid_size), 0),
                     s.value_grid_size)
         IN  <<Max(Zero, snapped_time), snapped_value>>

\* the loop body of snap_all_points_to_grid for one point
SnapPoint(s, p) ==
    LET t_display == DivPow10(p[1], time_scale(s))
        v_display == DivPow10(p[2], value_scale(s))
        snapped == snap_to_grid(s, t_display, v_display)
        real_time == Mul(snapped[1], time_scale(s))
        real_value == Mul(snapped[2], value_scale(s))
    IN  <<real_time, real_value>>

----------------------------------------------------------------------------
(* Text Codec: formatting *)

\* the tokens of ' '.join(f"{t:.6g} {v:.6g}" for the points in the order given)
pwl_pairs(points) ==
    [k \in 1..(2 * Len(points)) |->
        Num(Fmt6g(points[(k + 1) \div 2][IF k % 2 = 1 THEN 1 ELSE 2]))]

\* pwl_cmd of generate_pwl_text
pwl_cmd(points) ==
    IF Len(points) < 2 THEN NeedAtLeast2Points
    ELSE Text(TRUE, pwl_pairs(SortByTime(points)), TRUE)

\* generate_pwl_text up to the line that sets updating_from_plot
begin_write(s) == [s EXCEPT !.updating_from_plot = TRUE, !.pc = "writing"]

\* generate_pwl_text from there to the end of the write: the text widget
\* holds pwl_cmd afterwards (rewritten if it differed)
write_text(s) == [s EXCEPT !.pwl_text = pwl_cmd(s.pwl_points), !.pc = "written"]

\* the last line of generate_pwl_text
end_write(s) == [s EXCEPT !.updating_from_plot = FALSE, !.pc = "idle"]

\* generate_pwl_text from its call to its return
generate_pwl_text(s) == end_write(write_text(begin_write(s)))

\* update_plot: draws, then generate_pwl_text; returns early on an empty
\* list, and is left by the KeyError of the unit look-up before it draws
update_plot(s) ==
    IF s.pwl_points = <<>> THEN s
    ELSE IF KeyError(s) THEN s
    ELSE generate_pwl_text(s)

\* snap_all_points_to_grid
snap_all_points_to_grid(s) ==
    IF ~s.grid_snap_enabled THEN s
    ELSE IF KeyError(s) THEN s
    ELSE LET new_points ==
                 [i \in 1..Len(s.pwl_points) |-> SnapPoint(s, s.pwl_points[i])]
         IN  update_plot([s EXCEPT !.pwl_points = SortByTime(new_points)])

----------------------------------------------------------------------------
(* Point Store: uniqueness *)

max_attempts == 100

min_offset(s) ==
    LET base == Mul(D(1, -6), time_scale(s))
    IN  IF s.grid_snap_enabled /\ Lt(Zero, s.time_grid_size)
        THEN LET grid_size_in_base == Mul(s.time_grid_size, time_scale(s))
             IN  Max(base, Mul(grid_size_in_base, D(1, -4)))
        ELSE base

\* existing_times: the times of all points but the one at exclude_index
existing_times(s, exclude_index) ==
    {s.pwl_points[i][1] : i \in {j \in 1..Len(s.pwl_points) :
                                    exclude_index = None \/ j - 1 # exclude_index}}

\* is_duplicate with a quarter of min_offset as the threshold (a faulty variant)
is_duplicate_quarter(s, exclude_index, current_time) ==
    \E existing_time \in existing_times(s, exclude_index) :
        Lt(Abs(Sub(current_time, existing_time)), Half(Half(min_offset(s))))

\* is_duplicate after the inner loop: some time of existing_times is closer
\* to current_time than min_offset / 2
is_duplicate(s, exclude_index, current_time) ==
    \E half \in {Half(min_offset(s))} :
        \E i \in 1..Len(s.pwl_points) :
            /\ exclude_index = None \/ i - 1 # exclude_index
            /\ Lt(Abs(Sub(current_time, s.pwl_points[i][1])), half)

MaxOf(S) == CHOOSE a \in S : \A b \in S : Le(b, a)

\* the fallback placing the time on the largest stored one (a faulty variant)
fallback_on_max(s, target_time, exclude_index) ==
    IF existing_times(s, exclude_index) # {}
    THEN MaxOf(existing_times(s, exclude_index))
    ELSE Max(Zero, target_time)

\* the return after the for loop of find_unique_time
fallback(s, target_time, exclude_index) ==
    IF existing_times(s, exclude_index) # {}
    THEN Add(MaxOf(existing_times(s, exclude_index)), min_offset(s))
    ELSE Max(Zero, target_time)

\* the body of the for loop of find_unique_time after the check: the value
\* it leaves in current_time
next_time(s, target_time, attempt, offset_direction) ==
    IF offset_direction > 0
    THEN LET c == Add(target_time, Mul(min_offset(s), D(attempt, 0)))
         IN  IF Lt(c, Zero) THEN target_time ELSE c
    ELSE LET c == Sub(target_time, Mul(min_offset(s), D(attempt, 0)))
         IN  IF Lt(c, Zero)
             THEN Add(target_time, Mul(min_offset(s), D(attempt + 1, 0)))
             ELSE c

\* offset_direction at the head of iteration attempt: it starts at 1 and the
\* body sets it to -1, for good, in the first iteration whose right probe
\* target_time + min_offset * attempt is negative; min_offset being
\* positive, that is iteration 0 for a negative target_time and none otherwise
direction_at(s, target_time, attempt) ==
    IF attempt > 0 /\ Lt(target_time, Zero) THEN -1 ELSE 1

\* current_time at the head of iteration attempt
current_at(s, target_time, attempt) ==
    IF attempt = 0 THEN target_time
    ELSE next_time(s, target_time, attempt - 1,
                   direction_at(s, target_time, attempt - 1))

\* the check at the head of iteration attempt lets the loop return
returns_at(s, target_time, exclude_index, attempt) ==
    \E current_time \in {current_at(s, target_time, attempt)} :
        ~is_duplicate(s, exclude_index, current_time) /\ Le(Zero, current_time)

\* the iterations of the for loop that are run: up to the first one that
\* returns, all max_attempts of them if none does
attempts(s, target_time, exclude_index) ==
    IF \E attempt \in 0..(max_attempts - 1) :
           returns_at(s, target_time, exclude_index, attempt)
    THEN 0..(CHOOSE attempt \in 0..(max_attempts - 1) :
                /\ returns_at(s, target_time, exclude_index, attempt)
                /\ \A earlier \in 0..(attempt - 1) :
                       ~returns_at(s, target_time, exclude_index, earlier))
    ELSE 0..(max_attempts - 1)

\* the values current_time takes at the head of the iterations run, in order
probes(s, target_time, exclude_index) ==
    [k \in 1..Cardinality(attempts(s, target_time, exclude_index)) |->
        current_at(s, target_time, k - 1)]

\* the value returned: current_time of the last iteration run if its check
\* passes, the fallback otherwise
find_unique_time(s, target_time, exclude_index) ==
    CHOOSE unique_time \in
        { IF returns_at(s, target_time, exclude_index, last)
          THEN current_at(s, target_time, last)
          ELSE fallback(s, target_time, exclude_index) :
              last \in {Cardinality(attempts(s, target_time, exclude_index)) - 1} } :
        TRUE

----------------------------------------------------------------------------
(* Point Store: insert, append, delete, update *)

\* the insert_index loop of add_point_at: the length of the longest prefix of
\* points whose times are all below unique_time
RECURSIVE insert_index(_, _)
insert_index(points, unique_time) ==
    IF points # <<>> /\ Lt(points[1][1], unique_time)
    THEN 1 + insert_index(Tail(points), unique_time)
    ELSE 0

\* list.insert(index, p)
ListInsert(points, index, p) ==
    SubSeq(points, 1, index) \o <<p>> \o SubSeq(points, index + 1, Len(points))

\* del list[index]
ListDel(points, index) ==
    SubSeq(points, 1, index) \o SubSeq(points, index + 2, Len(points))

add_point_at(s, x, y) ==
    LET snapped == snap_to_grid(s, x, y)
        real_time == Max(Zero, Mul(snapped[1], time_scale(s)))
        real_value == Mul(snapped[2], value_scale(s))
        unique_time == find_unique_time(s, real_time, None)
        index == insert_index(s.pwl_points, unique_time)
    IN  update_plot([s EXCEPT !.pwl_points =
                         ListInsert(s.pwl_points, index, <<unique_time, real_value>>)])

add_point(s) ==
    LET new_time ==
            IF s.pwl_points # <<>>
            THEN Add(MaxOf({s.pwl_points[i][1] : i \in 1..Len(s.pwl_points)}),
                     time_scale(s))
            ELSE Zero
        unique_time == find_unique_time(s, new_time, None)
    IN  update_plot([s EXCEPT !.pwl_points =
                         SortByTime(Append(s.pwl_points, <<unique_time, Zero>>))])

\* an index the list does not have: the subscript raises IndexError and the
\* handler ends there
InRange(s, index) == index >= 0 /\ index < Len(s.pwl_points)

\* delete_point with the floor at one point (a faulty variant)
delete_point_floor1(s) ==
    IF s.selected_point # None /\ Len(s.pwl_points) > 1
    THEN IF ~InRange(s, s.selected_point) THEN s
         ELSE update_plot([s EXCEPT
                  !.pwl_points = ListDel(s.pwl_points, s.selected_point),
                  !.selected_point = None])
    ELSE IF s.selected_point = None
    THEN [s EXCEPT !.outcome = "No Selection"]
    ELSE [s EXCEPT !.outcome = "Minimum Points"]

\* delete_point testing the size before the selection (a faulty variant)
delete_point_size_first(s) ==
    IF Len(s.pwl_points) <= 2
    THEN [s EXCEPT !.outcome = "Minimum Points"]
    ELSE IF s.selected_point = None
    THEN [s EXCEPT !.outcome = "No Selection"]
    ELSE IF ~InRange(s, s.selected_point) THEN s
    ELSE update_plot([s EXCEPT
             !.pwl_points = ListDel(s.pwl_points, s.selected_point),
             !.selected_point = None])

delete_point(s) ==
    IF s.selected_point # None /\ Len(s.pwl_points) > 2
    THEN IF ~InRange(s, s.selected_point) THEN s
         ELSE update_plot([s EXCEPT
                  !.pwl_points = ListDel(s.pwl_points, s.selected_point),
                  !.selected_point = None])
    ELSE IF s.selected_point = None
    THEN [s EXCEPT !.outcome = "No Selection"]
    ELSE [s EXCEPT !.outcome = "Minimum Points"]

\* the loop of move_point that finds the moved point again after the sort:
\* the first index whose point is within 1e-12 of (unique_time, real_value),
\* the old index if there is none
new_index(s, points, unique_time, real_value) ==
    LET close == {i \in 1..Len(points) :
                     /\ Lt(Abs(Sub(points[i][1], unique_time)), D(1, -12))
                     /\ Lt(Abs(Sub(points[i][2], real_value)), D(1, -12))}
    IN  IF close = {} THEN s.selected_point
        ELSE (CHOOSE i \in close : \A j \in close : i <= j) - 1

move_point(s, x, y) ==
    IF s.selected_point = None THEN s
    ELSE LET snapped == snap_to_grid(s, x, y)
             real_time == Max(Zero, Mul(snapped[1], time_scale(s)))
             real_value == Mul(snapped[2], value_scale(s))
             unique_time == find_unique_time(s, real_time, s.selected_point)
             points == SortByTime([s.pwl_points EXCEPT
                           ![s.selected_point + 1] = <<unique_time, real_value>>])
         IN  IF ~InRange(s, s.selected_point) THEN s
             ELSE update_plot([s EXCEPT
                      !.pwl_points = points,
                      !.selected_point =
                          new_index(s, points, unique_time, real_value)])

----------------------------------------------------------------------------
(* Canvas gestures *)

\* distances of on_click: the L1 distance, in display units, from the click
\* to point i
distance(s, x, y, i) ==
    Add(Abs(Sub(x, DivPow10(s.pwl_points[i][1], time_scale(s)))),
        Abs(Sub(y, DivPow10(s.pwl_points[i][2], value_scale(s)))))

tolerance(s) == Mul(D(1, -1), Max(Sub(s.x_max, s.x_min), Sub(s.y_max, s.y_min)))

\* the index of the last point at the smallest distance (a faulty variant)
nearest_last(s, x, y) ==
    (CHOOSE i \in 1..Len(s.pwl_points) :
        /\ \A j \in 1..Len(s.pwl_points) : Le(distance(s, x, y, i), distance(s, x, y, j))
        /\ \A j \in (i + 1)..Len(s.pwl_points) :
               Lt(distance(s, x, y, i), distance(s, x, y, j))) - 1

\* distances.index(min(distances)), from 0
nearest(s, x, y) ==
    (CHOOSE i \in 1..Len(s.pwl_points) :
        /\ \A j \in 1..Len(s.pwl_points) : Le(distance(s, x, y, i), distance(s, x, y, j))
        /\ \A j \in 1..(i - 1) : Lt(distance(s, x, y, i), distance(s, x, y, j))) - 1

\* on_click with the left button inside the axes
on_click(s, x, y, dblclick) ==
    IF s.pwl_points # <<>>
       /\ Lt(distance(s, x, y, nearest(s, x, y) + 1), tolerance(s))
    THEN update_plot([s EXCEPT !.selected_point = nearest(s, x, y)])
    ELSE LET cleared == update_plot([s EXCEPT !.selected_point = None])
         IN  IF dblclick THEN add_point_at(cleared, x, y) ELSE cleared

\* on_motion with the left button held, not panning
on_motion(s, x, y) ==
    IF s.selected_point # None THEN move_point(s, x, y) ELSE s

----------------------------------------------------------------------------
(* Text Codec: parsing *)

\* content.split() of parse_pwl_text: the wrapper is stripped only if the
\* text both starts with "PWL(" and ends with ")"; otherwise the whole text
\* is split, and a token with "PWL(" or ")" stuck to it is no number
parts_of(text) ==
    IF text.pre /\ text.suf THEN text.parts
    ELSE LET n == Len(text.parts)
             glue(i) == (text.pre /\ i = 1) \/ (text.suf /\ i = n)
         IN  IF n = 0
             THEN IF text.pre THEN <<Word("PWL(")>>
                  ELSE IF text.suf THEN <<Word(")")>>
                  ELSE <<>>
             ELSE [i \in 1..n |-> IF glue(i) THEN Word("glued") ELSE text.parts[i]]

\* new_points without the clamp of negative times (a faulty variant)
pairs_of_unclamped(parts) ==
    [i \in 1..(Len(parts) \div 2) |-> <<parts[2 * i - 1].val, parts[2 * i].val>>]

\* new_points of parse_pwl_text before the sort: one pair per two tokens,
\* a negative time replaced by 0
pairs_of(parts) ==
    [i \in 1..(Len(parts) \div 2) |->
        <<Max(Zero, parts[2 * i - 1].val), parts[2 * i].val>>]

\* whether parse_pwl_text takes one of its early returns
parse_rejects(text) ==
    LET parts == parts_of(text)
    IN  \/ (~text.pre /\ ~text.suf /\ text.parts = <<>>)
        \/ text = NeedAtLeast2Points
        \/ Len(parts) < 4
        \/ Len(parts) % 2 # 0
        \/ \E i \in 1..Len(parts) : ~parts[i].num

\* parse_pwl_text clearing the selection before it validates the text (a
\* faulty variant)
parse_pwl_text_clearing(s) ==
    LET c == [s EXCEPT !.selected_point = None]
    IN  IF parse_rejects(s.pwl_text) THEN [c EXCEPT !.outcome = "rejected"]
        ELSE LET new_points == SortByTime(pairs_of(parts_of(s.pwl_text)))
                 t == [c EXCEPT !.pwl_points = new_points, !.outcome = "parsed"]
             IN  IF s.grid_snap_enabled THEN snap_all_points_to_grid(t)
                 ELSE update_plot(t)

\* parse_pwl_text, run by the timer
parse_pwl_text(s) ==
    IF parse_rejects(s.pwl_text) THEN [s EXCEPT !.outcome = "rejected"]
    ELSE LET new_points == SortByTime(pairs_of(parts_of(s.pwl_text)))
             t == [s EXCEPT !.pwl_points = new_points, !.selected_point = None,
                            !.outcome = "parsed"]
         IN  IF s.grid_snap_enabled THEN snap_all_points_to_grid(t)
             ELSE update_plot(t)

\* the delay of after(500, ...), in tenths of a second
Quiet == 5

\* on_pwl_text_change that leaves the pending call in place (a faulty
\* variant)
on_pwl_text_change_keeping(s) ==
    IF s.updating_from_plot THEN s
    ELSE [s EXCEPT !.after_calls =
                       {[c EXCEPT !.mine = FALSE] : c \in @}
                           \cup {[mine |-> TRUE, left |-> Quiet]}]

\* on_pwl_text_change without its first two lines (a faulty variant)
on_pwl_text_change_unguarded(s) ==
    [s EXCEPT !.after_calls =
                  {c \in @ : ~c.mine} \cup {[mine |-> TRUE, left |-> Quiet]}]

\* on_pwl_text_change: nothing while updating_from_plot; else after_cancel
\* of the call _text_update_timer names (no effect if that one has run),
\* and a new call, which _text_update_timer names from now on
on_pwl_text_change(s) ==
    IF s.updating_from_plot THEN s
    ELSE [s EXCEPT !.after_calls =
                       {c \in @ : ~c.mine}
                           \cup {[mine |-> TRUE, left |-> Quiet]}]

----------------------------------------------------------------------------
(* Grid and unit handlers *)

on_grid_snap_change(s, grid_snap_var) ==
    LET t == [s EXCEPT !.grid_snap_enabled = grid_snap_var]
    IN  IF grid_snap_var THEN snap_all_points_to_grid(t) ELSE t

\* on_grid_size_change with the two spin boxes holding time_grid_var and
\* value_grid_var
on_grid_size_change(s, time_grid_var, value_grid_var) ==
    LET time_size == IF Le(time_grid_var, Zero) THEN D(1, -3) ELSE time_grid_var
        value_size == IF Le(value_grid_var, Zero) THEN D(1, -3) ELSE value_grid_var
        t == [s EXCEPT !.time_grid_size = time_size, !.value_grid_size = value_size]
    IN  IF ~s.grid_snap_enabled THEN t
        ELSE IF KeyError(t)
        THEN \* the except branch, entered from snap_all_points_to_grid
             [s EXCEPT !.time_grid_size = One, !.value_grid_size = One,
                       !.outcome = "Grid Size Error"]
        ELSE snap_all_points_to_grid(t)

on_source_type_change(s, source_var) ==
    LET t == [s EXCEPT !.source_type = source_var, !.value_combo = source_var]
    IN  IF source_var = "Voltage"
        THEN IF s.value_unit \notin DOMAIN voltage_prefixes
             THEN update_plot([t EXCEPT !.value_unit = "mV"])
             ELSE update_plot(t)
        ELSE IF s.value_unit \notin DOMAIN current_prefixes
             THEN update_plot([t EXCEPT !.value_unit = "mA"])
             ELSE update_plot(t)

\* on_unit_change converting the stored times to the new time unit (a
\* faulty variant)
on_unit_change_converting(s, time_unit_var, value_unit_var) ==
    LET t == [s EXCEPT !.time_unit = time_unit_var, !.value_unit = value_unit_var]
        ratio == D(1, time_scale(t).e - time_scale(s).e)
    IN  IF KeyError(s) \/ KeyError(t) THEN t
        ELSE update_plot([t EXCEPT !.pwl_points =
                 [i \in DOMAIN @ |-> <<Mul(@[i][1], ratio), @[i][2]>>]])

on_unit_change(s, time_unit_var, value_unit_var) ==
    update_plot([s EXCEPT !.time_unit = time_unit_var, !.value_unit = value_unit_var])

\* the trace on x_min_var: a negative value written to it becomes 0
validate_x_min(value) == IF Lt(value, Zero) THEN Zero ELSE value

\* update_range taking x_min from the y_min variable (a faulty variant)
update_range_y_for_x(s, xr, yr) ==
    update_plot([s EXCEPT !.x_min = yr[1], !.x_max = xr[2],
                          !.y_min = yr[1], !.y_max = yr[2]])

\* update_range with the four range variables holding xr and yr
update_range(s, xr, yr) ==
    update_plot([s EXCEPT !.x_min = Max(Zero, xr[1]), !.x_max = xr[2],
                          !.y_min = yr[1], !.y_max = yr[2]])

----------------------------------------------------------------------------
(* View State: every handler writes the range variables it changes (the   *)
(* others still hold the fields) and ends with update_range               *)

\* the range variables as update_range left them
x_vars(s) == <<s.x_min, s.x_max>>
y_vars(s) == <<s.y_min, s.y_max>>

\* x_min_var.set(lo); x_max_var.set(hi), the trace on x_min_var running
set_x(lo, hi) == <<validate_x_min(lo), hi>>

zoom_in(s) ==
    LET x_center == Half(Add(s.x_min, s.x_max))
        y_center == Half(Add(s.y_min, s.y_max))
        x_range == Mul(Sub(s.x_max, s.x_min), D(25, -2))
        y_range == Mul(Sub(s.y_max, s.y_min), D(25, -2))
    IN  update_range(s, set_x(Sub(x_center, x_range), Add(x_center, x_range)),
                     <<Sub(y_center, y_range), Add(y_center, y_range)>>)

zoom_out(s) ==
    LET x_center == Half(Add(s.x_min, s.x_max))
        y_center == Half(Add(s.y_min, s.y_max))
        x_range == Mul(Sub(s.x_max, s.x_min), One)
        y_range == Mul(Sub(s.y_max, s.y_min), One)
    IN  update_range(s, set_x(Sub(x_center, x_range), Add(x_center, x_range)),
                     <<Sub(y_center, y_range), Add(y_center, y_range)>>)

\* the window lo..hi moved right so that it starts at 0, if lo is negative
shifted(lo, hi) == IF Lt(lo, Zero) THEN <<Zero, Sub(hi, lo)>> ELSE <<lo, hi>>

pan_left(s) ==
    LET x_range == Sub(s.x_max, s.x_min)
        shift == Mul(x_range, D(25, -2))
        new_x == shifted(Sub(s.x_min, shift), Sub(s.x_max, shift))
    IN  update_range(s, set_x(new_x[1], new_x[2]), y_vars(s))

pan_right(s) ==
    LET x_range == Sub(s.x_max, s.x_min)
        shift == Mul(x_range, D(25, -2))
    IN  update_range(s, set_x(Add(s.x_min, shift), Add(s.x_max, shift)), y_vars(s))

pan_up(s) ==
    LET y_range == Sub(s.y_max, s.y_min)
        shift == Mul(y_range, D(25, -2))
    IN  update_range(s, x_vars(s), <<Add(s.y_min, shift), Add(s.y_max, shift)>>)

pan_down(s) ==
    LET y_range == Sub(s.y_max, s.y_min)
        shift == Mul(y_range, D(25, -2))
    IN  update_range(s, x_vars(s), <<Sub(s.y_min, shift), Sub(s.y_max, shift)>>)

\* on_scroll inside the axes at (x_center, y_center); button is "up" or
\* "down", key is "control", "shift" or "none"
on_scroll(s, button, key, x_center, y_center) ==
    LET zoom_factor == IF button = "up" THEN D(9, -1) ELSE D(11, -1)
        x_range == Half(Mul(Sub(s.x_max, s.x_min), zoom_factor))
        y_range == Half(Mul(Sub(s.y_max, s.y_min), zoom_factor))
        new_x == shifted(Sub(x_center, x_range), Add(x_center, x_range))
        new_y == <<Sub(y_center, y_range), Add(y_center, y_range)>>
    IN  IF key = "control" THEN update_range(s, x_vars(s), new_y)
        ELSE IF key = "shift"
        THEN update_range(s, set_x(new_x[1], new_x[2]), y_vars(s))
        ELSE update_range(s, set_x(new_x[1], new_x[2]), new_y)

\* on_motion inside the axes while panning, the button having gone down at
\* pan_start
on_motion_panning(s, pan_start, x, y) ==
    LET dx == Sub(pan_start[1], x)
        dy == Sub(pan_start[2], y)
        new_x == shifted(Add(s.x_min, dx), Add(s.x_max, dx))
    IN  update_range(s, set_x(new_x[1], new_x[2]),
                     <<Add(s.y_min, dy), Add(s.y_max, dy)>>)

MinOf(S) == CHOOSE a \in S : \A b \in S : Le(a, b)

\* margin of auto_scale without the 1 for a range of 0 (a faulty variant)
margin_of_range(S) == Mul(Sub(MaxOf(S), MinOf(S)), D(1, -1))

\* margin of auto_scale for the values (or times) S
margin(S) ==
    LET range == Sub(MaxOf(S), MinOf(S))
    IN  IF Lt(Zero, range) THEN Mul(range, D(1, -1)) ELSE One

auto_scale(s) ==
    IF s.pwl_points = <<>> THEN s
    ELSE LET times == {s.pwl_points[i][1] : i \in 1..Len(s.pwl_points)}
             values == {s.pwl_points[i][2] : i \in 1..Len(s.pwl_points)}
         IN  update_range(
                 s,
                 set_x(DivPow10(Sub(MinOf(times), margin(times)), time_scale(s)),
                       DivPow10(Add(MaxOf(times), margin(times)), time_scale(s))),
                 <<DivPow10(Sub(MinOf(values), margin(values)), value_scale(s)),
                   DivPow10(Add(MaxOf(values), margin(values)), value_scale(s))>>)

----------------------------------------------------------------------------
(* Persistence Snapshot *)

\* data.get(key, default) on the loaded document
Get(data, key, default) == IF key \in DOMAIN data THEN data[key] ELSE default

\* save_file writing the time range under both keys (a faulty variant)
save_file_x_for_y(s) ==
    [pwl_points |-> s.pwl_points, source_type |-> s.source_type,
     time_unit |-> s.time_unit, value_unit |-> s.value_unit,
     x_range |-> <<s.x_min, s.x_max>>, y_range |-> <<s.x_min, s.x_max>>,
     grid_snap_enabled |-> s.grid_snap_enabled,
     time_grid_size |-> s.time_grid_size, value_grid_size |-> s.value_grid_size]

\* the document save_file writes
save_file(s) ==
    [pwl_points |-> s.pwl_points, source_type |-> s.source_type,
     time_unit |-> s.time_unit, value_unit |-> s.value_unit,
     x_range |-> <<s.x_min, s.x_max>>, y_range |-> <<s.y_min, s.y_max>>,
     grid_snap_enabled |-> s.grid_snap_enabled,
     time_grid_size |-> s.time_grid_size, value_grid_size |-> s.value_grid_size]

load_file(s, data) ==
    LET t == [s EXCEPT
                !.pwl_points = Get(data, "pwl_points", <<<<Zero, Zero>>, <<D(1, -6), Zero>>>>),
                !.source_type = Get(data, "source_type", "Voltage"),
                !.time_unit = Get(data, "time_unit", "us"),
                !.value_unit = Get(data, "value_unit", "mV"),
                !.grid_snap_enabled = Get(data, "grid_snap_enabled", FALSE),
                !.time_grid_size = Get(data, "time_grid_size", One),
                !.value_grid_size = Get(data, "value_grid_size", One)]
        x_range == Get(data, "x_range", <<Zero, D(1, 1)>>)
        y_range == Get(data, "y_range", <<D(-5, 0), D(5, 0)>>)
        w == on_source_type_change(t, t.source_type)
        u == update_range(w, <<validate_x_min(x_range[1]), x_range[2]>>, y_range)
    IN  IF Len(x_range) < 2 \/ Len(y_range) < 2
        THEN \* x_range[0] ... y_range[1] raises: the fields assigned so far
             \* stay, the rest of the handler is skipped
             [t EXCEPT !.outcome = "Error"]
        ELSE IF w.pwl_points # <<>> /\ KeyError(w)
        THEN \* update_plot, called by on_source_type_change, raises
             [w EXCEPT !.outcome = "Error"]
        ELSE [u EXCEPT !.outcome = "Loaded"]

----------------------------------------------------------------------------
(* The inputs of the handlers *)

\* the store is not grown beyond this many points
MaxPoints == 3

\* pointer positions in display units
ClickX == {D(26, -1)}
ClickY == {Zero, D(14, -1)}

\* contents of the grid size spin boxes
TimeGridChoices == {One}
ValueGridChoices == {One}

\* what the combo boxes offer
TimeUnitChoices == {"us"}
ValueUnitChoices(source) == IF source = "Voltage" THEN {"mV"} ELSE {"mA"}

\* the text typed into the text widget (SpecText types more)
TextChoices ==
    { Text(FALSE, <<Num(D(26, -7)), Num(Zero), Num(D(-1, -6)), Num(D(14, -4))>>,
           FALSE) }

\* documents offered to load_file, besides the one save_file would write
DocChoices ==
    {
      [pwl_points |-> <<<<D(26, -7), Zero>>, <<D(1, -6), Zero>>>>],
      [pwl_points |-> <<<<Zero, Zero>>>>] }

----------------------------------------------------------------------------
(* The state machine *)

\* the fields are those of s
Is(s) ==
    /\ pwl_points = s.pwl_points
    /\ selected_point = s.selected_point
    /\ time_unit = s.time_unit
    /\ value_unit = s.value_unit
    /\ source_type = s.source_type
    /\ x_min = s.x_min
    /\ x_max = s.x_max
    /\ y_min = s.y_min
    /\ y_max = s.y_max
    /\ grid_snap_enabled = s.grid_snap_enabled
    /\ time_grid_size = s.time_grid_size
    /\ value_grid_size = s.value_grid_size
    /\ pwl_text = s.pwl_text
    /\ after_calls = s.after_calls
    /\ updating_from_plot = s.updating_from_plot
    /\ pc = s.pc
    /\ idle = s.idle
    /\ burst = s.burst
    /\ value_combo = s.value_combo
    /\ moves = s.moves
    /\ outcome = s.outcome

\* the fields after __init__, which ends with update_plot (that writes the
\* text)
init_fields ==
    update_plot(
        [pwl_points |-> <<<<Zero, Zero>>, <<D(1, -6), Zero>>>>,
         selected_point |-> None,
         time_unit |-> "us", value_unit |-> "mV", source_type |-> "Voltage",
         x_min |-> Zero, x_max |-> D(1, 1), y_min |-> D(-5, 0), y_max |-> D(5, 0),
         grid_snap_enabled |-> FALSE,
         time_grid_size |-> One, value_grid_size |-> One,
         pwl_text |-> Text(FALSE, <<>>, FALSE), after_calls |-> {},
         updating_from_plot |-> FALSE, pc |-> "idle", idle |-> Quiet + 1,
         burst |-> 0, value_combo |-> "Voltage", moves |-> 0,
         outcome |-> "none"])

Init == Is(init_fields)

\* a left click, or the second press of a double click
Click ==
    \E x \in ClickX, y \in ClickY, dblclick \in BOOLEAN :
        /\ dblclick => Len(pwl_points) < MaxPoints
        /\ Becomes(on_click(Self, x, y, dblclick))

\* the pointer moves with the left button held
Drag ==
    \E x \in ClickX, y \in ClickY :
        /\ selected_point # None
        /\ Becomes(on_motion(Self, x, y))

AddPoint ==
    /\ Len(pwl_points) < MaxPoints
    /\ Becomes(add_point(Self))

DeletePoint ==
    \E s \in {delete_point(Self)} : Becomes(s)

GridSnapChange ==
    \E grid_snap_var \in {~grid_snap_enabled} :
        Becomes(on_grid_snap_change(Self, grid_snap_var))

GridSizeChange ==
    \E t \in TimeGridChoices, v \in ValueGridChoices :
        /\ Becomes(on_grid_size_change(Self, t, v))

SourceTypeChange ==
    \E source \in {"Voltage", "Current"} :
        /\ Becomes(on_source_type_change(Self, source))

UnitChange ==
    \E t \in TimeUnitChoices, v \in ValueUnitChoices(source_type) :
        Becomes(on_unit_change(Self, t, v))

\* a key is pressed and released in the text widget: the content becomes
\* text (the same content for a key that edits nothing), then
\* on_pwl_text_change runs
TypeText ==
    \E text \in TextChoices \cup {pwl_text} :
        Becomes(on_pwl_text_change([Self EXCEPT !.pwl_text = text]))

\* Tk runs the pending call c
fire(s, c) == parse_pwl_text([s EXCEPT !.after_calls = @ \ {c}])

\* the delay of a pending call passes and Tk runs it
TimerFires ==
    \E c \in after_calls : Becomes(fire(Self, c))

LoadFile ==
    \E data \in DocChoices \cup {save_file(Self)} :
        Becomes(load_file(Self, data))

Next ==
    \/ Click
    \/ Drag
    \/ AddPoint
    \/ DeletePoint
    \/ GridSnapChange
    \/ GridSizeChange
    \/ SourceTypeChange
    \/ UnitChange
    \/ TypeText
    \/ TimerFires
    \/ LoadFile

Spec == Init /\ [][Next]_vars

----------------------------------------------------------------------------
(* Loads of documents of every shape between canvas gestures, Add Point    *)
(* and Delete Point                                                        *)

\* documents offered to load_file: an empty point list, one with three
\* points, one whose x_range is too short to unpack, one with nothing
LoadDocs ==
    DocChoices \cup
    { [pwl_points |-> <<>>],
      [pwl_points |-> <<<<Zero, One>>, <<D(1, -6), Zero>>, <<D(2, -6), One>>>>,
       x_range |-> <<One, D(5, 0)>>],
      [pwl_points |-> <<<<Zero, One>>>>, x_range |-> <<One>>],
      [x |-> 0 ] }

LoadAny ==
    \E data \in LoadDocs \cup {save_file(Self)} :
        \E s \in {load_file(Self, data)} : Becomes(s)

NextLoad ==
    \/ Click
    \/ AddPoint
    \/ DeletePoint
    \/ LoadAny

SpecLoad == Init /\ [][NextLoad]_vars

----------------------------------------------------------------------------
(* The Delete Point button between canvas gestures, Add Point and loads    *)
(* (a load keeps the selection, whatever the size of the list it reads)    *)

NextDelete ==
    \/ Click
    \/ Drag
    \/ AddPoint
    \/ DeletePoint
    \/ LoadFile

SpecDelete == Init /\ [][NextDelete]_vars

----------------------------------------------------------------------------
(* The text widget: every kind of text parse_pwl_text tells apart, typed   *)
(* between canvas gestures and changes of the snap check box               *)

ParseTexts ==
    TextChoices \cup
    { Text(TRUE, <<Num(Zero), Num(Zero), Num(D(-1, -6)), Num(D(-25, -4)),
                   Num(D(26, -7)), Num(Zero)>>, TRUE),
      Text(FALSE, <<Num(D(1, -6)), Num(Zero), Word("abc"), Num(Zero)>>, FALSE),
      Text(FALSE, <<Num(D(1, -6)), Num(Zero), Num(D(26, -7))>>, FALSE),
      Text(TRUE, <<Num(D(1, -6)), Num(Zero)>>, TRUE),
      Text(TRUE, <<Num(Zero), Num(Zero), Num(D(1, -6)), Num(Zero)>>, FALSE),
      Text(TRUE, <<>>, TRUE),
      Text(FALSE, <<>>, FALSE),
      NeedAtLeast2Points }

TypeAnyText ==
    \E text \in ParseTexts \cup {pwl_text} :
        Becomes(on_pwl_text_change([Self EXCEPT !.pwl_text = text]))

NextText ==
    \/ Click
    \/ GridSnapChange
    \/ TypeAnyText
    \/ TimerFires

SpecText == Init /\ [][NextText]_vars

----------------------------------------------------------------------------
(* Inserts and updates only, with the unit system and the grid             *)
(* configuration held fixed: the canvas gestures and the Add Point button, *)
(* with pointer positions a fraction of min_offset away from a stored time *)

EditX == {D(1, 0), D(10000003, -7), D(10000007, -7), D(26, -1)}

InitEdit ==
    \E enabled \in BOOLEAN :
        Is(on_grid_snap_change(init_fields, enabled))

EditClick ==
    \E x \in EditX, y \in ClickY, dblclick \in BOOLEAN :
        /\ dblclick => Len(pwl_points) < MaxPoints
        /\ Becomes(on_click(Self, x, y, dblclick))

EditDrag ==
    \E x \in EditX, y \in ClickY :
        /\ selected_point # None
        /\ Becomes(on_motion(Self, x, y))

NextEdit ==
    \/ EditClick
    \/ EditDrag
    \/ AddPoint

SpecEdit == InitEdit /\ [][NextEdit]_vars

----------------------------------------------------------------------------
(* find_unique_time as a function of the store, the target and the         *)
(* excluded index: stores with points min_offset apart, as repeated double *)
(* clicks on one spot leave them, long enough to use up the for loop       *)

MaxLattice == 99
MaxProbes == 2

\* n points on the multiples of 1e-12 s, the min_offset of the unit us
Lattice(n) == [k \in 1..n |-> <<D(k - 1, -12), Zero>>]

ProbeStores ==
    { Lattice(2), Lattice(3), Lattice(MaxLattice),
      <<<<Zero, Zero>>, <<D(15, -13), Zero>>>>,
      <<<<D(1, -12), Zero>>, <<D(2, -12), Zero>>, <<D(3, -12), Zero>>>> }

\* pointer positions on the time axis, in us
ProbeTargets == {Zero, D(5, -7), D(1, -6)}

\* s with one more gesture counted, if that is allowed
Counted(s) == IF s.moves < MaxProbes THEN {[s EXCEPT !.moves = @ + 1]} ELSE {}

InitProbe ==
    \E points \in ProbeStores, selected \in {None, 0} :
        Is(update_plot([init_fields EXCEPT
               !.pwl_points = points, !.selected_point = selected]))

ProbeInsert ==
    \E x \in ProbeTargets :
        \E s \in Counted(add_point_at(Self, x, Zero)) : Becomes(s)

ProbeMove ==
    \E x \in ProbeTargets :
        /\ selected_point # None
        /\ \E s \in Counted(move_point(Self, x, Zero)) : Becomes(s)

NextProbe ==
    \/ ProbeInsert
    \/ ProbeMove

SpecProbe == InitProbe /\ [][NextProbe]_vars

----------------------------------------------------------------------------
(* snap_all_points_to_grid as a function of the store, the unit system and *)
(* the grid configuration, snapping being enabled                          *)

SnapTimes == {Zero, D(14, -7), D(25, -7), D(26, -7)}
SnapValues == {Zero, D(14, -4), D(-25, -4)}
SnapTimeUnits == {"ns", "us", "ms"}
SnapValueUnits == {"mV", "V"}
SnapGridSizes == {D(5, -1), One, D(2, 0)}

\* stores of two points, sorted, the times distinct
SnapStores ==
    {<<<<t1, v1>>, <<t2, v2>>>> :
        t1 \in SnapTimes, t2 \in SnapTimes, v1 \in SnapValues, v2 \in SnapValues}

InitSnap ==
    \E points \in {p \in SnapStores : Lt(p[1][1], p[2][1])},
       t \in SnapTimeUnits, v \in SnapValueUnits,
       tg \in SnapGridSizes, vg \in SnapGridSizes :
        Is(update_plot([init_fields EXCEPT
               !.pwl_points = points, !.time_unit = t, !.value_unit = v,
               !.grid_snap_enabled = TRUE,
               !.time_grid_size = tg, !.value_grid_size = vg]))

SnapAll ==
    \E s \in {snap_all_points_to_grid(Self)} : Becomes(s)

NextSnap == SnapAll

SpecSnap == InitSnap /\ [][NextSnap]_vars

----------------------------------------------------------------------------
(* The text widget against the clock: keys released in the text widget,   *)
(* tenths of a second passing, the pending call running when it is due,    *)
(* and generate_pwl_text, called after a click on the canvas, running line *)
(* by line                                                                 *)

\* the burst counter stops here
MaxBurst == 3

SyncTexts ==
    TextChoices \cup
    { Text(FALSE, <<Num(D(1, -6)), Num(Zero), Num(D(26, -7))>>, FALSE) }

\* a tenth of a second passes
tick(s) ==
    [s EXCEPT !.after_calls = {[c EXCEPT !.left = @ - 1] : c \in @},
              !.idle = @ + 1]

\* a key is released in the text widget, whose content is text by then
KeyRelease ==
    /\ pc = "idle"
    /\ \E text \in SyncTexts \cup {pwl_text} :
           Becomes(on_pwl_text_change(
               [Self EXCEPT !.pwl_text = text,
                            !.idle = 0,
                            !.burst = IF burst > 0 /\ idle < Quiet
                                      THEN (IF burst < MaxBurst THEN burst + 1
                                            ELSE burst)
                                      ELSE 1]))

\* Tk runs a call as soon as it is due: time passes only if none is
Tick ==
    /\ pc = "idle"
    /\ idle <= Quiet
    /\ \A c \in after_calls : c.left > 0
    /\ Becomes(tick(Self))

\* Tk runs a call that is due
AfterDue ==
    /\ pc = "idle"
    /\ \E c \in after_calls : c.left = 0 /\ Becomes(fire(Self, c))

\* a left click on the canvas: on_click up to the call of generate_pwl_text
CallFormatter ==
    /\ pc = "idle"
    /\ \E x \in ClickX, y \in ClickY :
           Becomes([on_click(Self, x, y, FALSE) EXCEPT !.pwl_text = pwl_text,
                                                       !.pc = "called"])

SetFlag ==
    /\ pc = "called"
    /\ Becomes(begin_write(Self))

WriteText ==
    /\ pc = "writing"
    /\ Becomes(write_text(Self))

ClearFlag ==
    /\ pc = "written"
    /\ Becomes(end_write(Self))

NextSync ==
    \/ KeyRelease
    \/ Tick
    \/ AfterDue
    \/ CallFormatter
    \/ SetFlag
    \/ WriteText
    \/ ClearFlag

SpecSync == Init /\ [][NextSync]_vars

----------------------------------------------------------------------------
(* The view: the buttons, keys and wheel that zoom and pan, a drag with    *)
(* the right button, the range spin boxes, Auto Scale and Load, on stores  *)
(* spread over one time or one value and over several                      *)

\* the window is zoomed, panned or edited at most MaxMoves times in a row,
\* and stays within MaxExtent display units of the origin on both axes
MaxMoves == 2
MaxExtent == 40

\* s with one more move counted, if that is allowed
Moved(s) ==
    IF /\ s.moves < MaxMoves
       /\ \A b \in {s.x_min, s.x_max, s.y_min, s.y_max} :
              Le(Abs(b), D(MaxExtent, 0))
    THEN {[s EXCEPT !.moves = @ + 1]}
    ELSE {}

ViewDocs ==
    { [pwl_points |-> <<<<D(26, -7), D(14, -4)>>>>],
      [pwl_points |-> <<<<Zero, Zero>>, <<Zero, D(-25, -4)>>>>,
       x_range |-> <<D(-5, 0), D(5, 0)>>],
      [pwl_points |-> <<<<D(1, -6), D(1, -3)>>, <<D(26, -7), D(1, -3)>>,
                        <<D(5, -6), D(-25, -4)>>>>,
       x_range |-> <<D(2, 0), D(6, 0)>>, y_range |-> <<Zero, D(2, 0)>>],
      [x_range |-> <<D(1, 0), D(2, 1)>>] }

\* where the wheel is turned, where the right button goes down and where
\* the pointer is dragged to
ScrollAt == {<<D(26, -1), D(14, -1)>>}
PanStart == {<<D(5, 0), Zero>>}
PanTo == {<<Zero, Zero>>, <<D(1, 1), One>>}

\* where the left button is clicked: between two points, on a point, at
\* some distance from one
HitX == {D(5, -1), One, D(2, 0), D(26, -1)}
HitY == {Zero, One, D(14, -1)}
SelectAt == {<<D(5, -1), Zero>>, <<D(26, -1), One>>}

\* what is typed into the spin boxes of the time range
RangeChoices == {<<D(-5, 0), D(5, 0)>>, <<D(5, 0), D(15, 0)>>}

InitView == \E data \in ViewDocs : Is(load_file(init_fields, data))

ZoomIn == \E s \in Moved(zoom_in(Self)) : Becomes(s)

ZoomOut == \E s \in Moved(zoom_out(Self)) : Becomes(s)

PanLeft == \E s \in Moved(pan_left(Self)) : Becomes(s)

PanRight == \E s \in Moved(pan_right(Self)) : Becomes(s)

PanUp == \E s \in Moved(pan_up(Self)) : Becomes(s)

PanDown == \E s \in Moved(pan_down(Self)) : Becomes(s)

Scroll ==
    \E button \in {"up", "down"}, key \in {"control", "shift", "none"},
       at \in ScrollAt :
        \E s \in Moved(on_scroll(Self, button, key, at[1], at[2])) :
            Becomes(s)

PanDrag ==
    \E pan_start \in PanStart, to \in PanTo :
        \E s \in Moved(on_motion_panning(Self, pan_start, to[1], to[2])) :
            Becomes(s)

\* a single left click
Select ==
    \E at \in SelectAt :
        \E s \in {on_click(Self, at[1], at[2], FALSE)} : Becomes(s)

AutoScale ==
    \E s \in {auto_scale(Self)} : Becomes([s EXCEPT !.moves = 0])

\* the time range is typed into its spin boxes and an arrow of one is
\* clicked
RangeEdit ==
    \E xr \in RangeChoices :
        \E s \in Moved(update_range(Self, set_x(xr[1], xr[2]), y_vars(Self))) :
            Becomes(s)

LoadView ==
    \E data \in ViewDocs :
        \E s \in {load_file(Self, data)} : Becomes([s EXCEPT !.moves = 0])

NextView ==
    \/ ZoomIn
    \/ ZoomOut
    \/ PanLeft
    \/ PanRight
    \/ PanUp
    \/ PanDown
    \/ Scroll
    \/ PanDrag
    \/ Select
    \/ AutoScale
    \/ RangeEdit
    \/ LoadView

SpecView == InitView /\ [][NextView]_vars

----------------------------------------------------------------------------
(* The configuration: the source and unit combo boxes, the snap check box, *)
(* the grid size spin boxes and Load, with documents that are well formed, *)
(* that carry odd settings and that make load_file fail                    *)

\* what is typed into the grid size spin boxes
GridSizeEdits == {D(-1, 0), Zero, D(5, -1), One}

ConfigTimeUnits == {"ns", "us", "ms"}

\* the values list of the value combo box, as on_source_type_change set it
ValueUnitsOffered(source) ==
    IF source = "Voltage" THEN DOMAIN voltage_prefixes
    ELSE DOMAIN current_prefixes

\* one of the two unit combo boxes is changed; on_unit_change reads both
UnitPicks ==
    {<<time_unit_var, value_unit>> : time_unit_var \in ConfigTimeUnits}
        \cup {<<time_unit, value_unit_var>> :
                 value_unit_var \in ValueUnitsOffered(value_combo)}

ConfigDocs ==
    { [source_type |-> "Current", value_unit |-> "uA", time_unit |-> "ms"],
      [source_type |-> "Current"],
      [source_type |-> "Current", x_range |-> <<>>],
      [value_unit |-> "kV", y_range |-> <<One>>, grid_snap_enabled |-> TRUE],
      [time_unit |-> "min", x_range |-> <<One, D(2, 0)>>],
      [pwl_points |-> <<<<D(1, -6), Zero>>, <<Zero, Zero>>>>,
       x_range |-> <<One, D(5, 0)>>, y_range |-> <<D(-1, 0), One>>],
      [time_grid_size |-> Zero, value_grid_size |-> D(2, 0)],
      [grid_snap_enabled |-> TRUE, time_grid_size |-> D(5, -1),
       value_grid_size |-> D(-1, 0)] }

SourcePick ==
    \E source_var \in {"Voltage", "Current"} :
        \E s \in {on_source_type_change(Self, source_var)} : Becomes(s)

UnitPick ==
    \E vars_read \in UnitPicks :
        \E s \in {on_unit_change(Self, vars_read[1], vars_read[2])} :
            Becomes(s)

GridSizeEdit ==
    \E time_grid_var \in GridSizeEdits, value_grid_var \in GridSizeEdits :
        \E s \in {on_grid_size_change(Self, time_grid_var, value_grid_var)} :
            Becomes(s)

LoadConfig ==
    \E data \in ConfigDocs \cup {save_file(Self)} :
        \E s \in {load_file(Self, data)} : Becomes(s)

NextConfig ==
    \/ SourcePick
    \/ UnitPick
    \/ GridSnapChange
    \/ GridSizeEdit
    \/ LoadConfig

SpecConfig == Init /\ [][NextConfig]_vars

----------------------------------------------------------------------------
(* Properties *)

\* ascending by time
IsSorted(points) ==
    \A i \in 1..(Len(points) - 1) : Le(points[i][1], points[i + 1][1])

\* no two times differ by less than gap
Separated(points, gap) ==
    \A i, j \in 1..Len(points) :
        i < j => ~Lt(Abs(Sub(points[i][1], points[j][1])), gap)

DistinctTimes(points) ==
    \A i, j \in 1..Len(points) : i < j => points[i][1] # points[j][1]

\* the same points, each as many times
SameBag(a, b) ==
    /\ Len(a) = Len(b)
    /\ \A i \in 1..Len(a) :
           Cardinality({j \in 1..Len(a) : a[j] = a[i]})
               = Cardinality({j \in 1..Len(b) : b[j] = a[i]})

ViewState(s) == <<s.x_min, s.x_max, s.y_min, s.y_max>>

GridConfig(s) == <<s.grid_snap_enabled, s.time_grid_size, s.value_grid_size>>

\* the failures of a text parse: no text, the sentinel message, fewer than
\* 4 tokens, an odd number of tokens, a token that is no number (a half
\* typed wrapper sticks to the token next to it)
Fails(text) ==
    \/ text = Text(FALSE, <<>>, FALSE)
    \/ text = NeedAtLeast2Points
    \/ Len(text.parts) < 4
    \/ Len(text.parts) % 2 # 0
    \/ \E i \in 1..Len(text.parts) : ~text.parts[i].num
    \/ text.pre # text.suf

\* the store with every number rounded as the text shows it
Round6(points) ==
    [i \in 1..Len(points) |-> <<Fmt6g(points[i][1]), Fmt6g(points[i][2])>>]

\* C1: in every reachable state, whatever sequence of insert, update,
\* delete, appendDefault, snapAll, text parse and snapshot load led to it,
\* the Point Store is sorted ascending by time.
C1_StoreSorted == IsSorted(pwl_points)

C3_TimesDistinct == DistinctTimes(pwl_points)

\* C4: in every reachable state the Point Store holds at least 2 points.
C4_AtLeastTwoPoints == Len(pwl_points) >= 2

\* C5, as claimed: delete on a store of exactly 2 points, for every value of
\* Selection, ends with the "Minimum Points" warning and leaves the store
\* unchanged.
C5_AlwaysMinimumPoints ==
    Len(pwl_points) = 2 =>
        LET r == delete_point(Self)
        IN  r.outcome = "Minimum Points" /\ r.pwl_points = pwl_points

\* C5, amended: delete on a store of exactly 2 points leaves the store
\* unchanged for every value of Selection; it ends with the "Minimum Points"
\* warning when Selection is an index and with the "No Selection" warning
\* when Selection is none.
C5_DeleteAtFloor ==
    Len(pwl_points) = 2 =>
        LET r == delete_point(Self)
        IN  /\ r.pwl_points = pwl_points
            /\ r.selected_point = selected_point
            /\ r.outcome = IF selected_point = None THEN "No Selection"
                           ELSE "Minimum Points"

\* delete was refused on a store of 2 points with a point selected
C5_RefusedAtFloor ==
    /\ outcome = "Minimum Points"
    /\ Len(pwl_points) = 2
    /\ selected_point # None

\* C6: delete with Selection none, on a store of any size, ends with the
\* "No Selection" warning and leaves the Point Store and Selection unchanged.
C6_DeleteWithoutSelection ==
    selected_point = None =>
        LET r == delete_point(Self)
        IN  /\ r.outcome = "No Selection"
            /\ r.pwl_points = pwl_points
            /\ r.selected_point = None

\* delete was refused for want of a selection on a store above the floor
C6_RefusedNoSelection ==
    /\ outcome = "No Selection"
    /\ selected_point = None
    /\ Len(pwl_points) > 2

\* C7: a text parse that fails (a token that is no number, an odd number of
\* tokens, fewer than 4 tokens, no text, the sentinel message) leaves the
\* Point Store, the Selection, the ViewState and the GridConfig as they were.
C7_FailedParseKeepsState ==
    Fails(pwl_text) =>
        LET r == parse_pwl_text(Self)
        IN  /\ r.outcome = "rejected"
            /\ r.pwl_points = pwl_points
            /\ r.selected_point = selected_point
            /\ ViewState(r) = ViewState(Self)
            /\ GridConfig(r) = GridConfig(Self)

\* a parse failed while a point was selected
C7_RejectedWithSelection ==
    /\ outcome = "rejected"
    /\ Fails(pwl_text)
    /\ selected_point # None

\* C8: a successful parse of a text of n >= 2 pairs of numbers replaces the
\* Point Store with those n pairs, negative times replaced by 0, sorted
\* ascending by time, or with their snapAll image when snapping is enabled,
\* and sets Selection to none.
C8_SuccessfulParse ==
    ~Fails(pwl_text) =>
        LET parts == pwl_text.parts
            n == Len(parts) \div 2
            pairs == [i \in 1..n |->
                         <<IF Lt(parts[2 * i - 1].val, Zero) THEN Zero
                           ELSE parts[2 * i - 1].val,
                           parts[2 * i].val>>]
            image == IF grid_snap_enabled
                     THEN [i \in 1..n |-> SnapPoint(Self, pairs[i])]
                     ELSE pairs
            r == parse_pwl_text(Self)
        IN  /\ r.outcome = "parsed"
            /\ r.selected_point = None
            /\ IsSorted(r.pwl_points)
            /\ SameBag(r.pwl_points, image)

\* the text "2.6e-6 0 -1e-6 1.4e-3" was parsed: the negative time is 0 and
\* the pairs are in time order
C8_ParsedClampedSorted ==
    /\ outcome = "parsed"
    /\ pwl_points = <<<<Zero, D(14, -4)>>, <<D(26, -7), Zero>>>>

\* C9: for every reachable Point Store (at least 2 points, sorted, the times
\* distinct), with snapping enabled or disabled, parsing the text formatted
\* from the store succeeds and gives the store back, point for point, up to
\* the rounding to 6 significant digits.
C9_RoundTrip ==
    (Len(pwl_points) >= 2 /\ IsSorted(pwl_points) /\ DistinctTimes(pwl_points)) =>
        LET r == parse_pwl_text(generate_pwl_text(Self))
        IN  r.outcome = "parsed" /\ r.pwl_points = Round6(pwl_points)

\* C10: with snapping enabled, for every store, unit system and grid
\* configuration, snapAll applied twice gives the same Point Store as
\* snapAll applied once.
C10_SnapAllIdempotent ==
    grid_snap_enabled =>
        LET once == snap_all_points_to_grid(Self)
        IN  snap_all_points_to_grid(once).pwl_points = once.pwl_points

\* snapAll has moved both points of a store onto the grid line at 2 us
C10_Snapped ==
    /\ grid_snap_enabled
    /\ time_unit = "us"
    /\ time_grid_size = D(2, 0)
    /\ pwl_points[1][1] = D(2, -6)
    /\ pwl_points[2][1] = D(2, -6)

\* pointer positions handed to snap_to_grid, some left of the time axis
ProbeX == EditX \cup {D(25, -1), D(-5, -1), D(-26, -1)}
ProbeY == ClickY \cup {D(-25, -1)}

\* a is a multiple of g, and none is nearer to x
NearestMultiple(a, x, g) ==
    /\ Mul(D(RoundDiv(a, g), 0), g) = a
    /\ Le(Mul(D(2, 0), Abs(Sub(a, x))), g)

\* r is what snap returns for (x, y): (x, y) with snapping disabled; with
\* snapping enabled and positive cell sizes, the nearest multiples, 0 for a
\* time whose nearest multiple is negative
SnapsTo(s, x, y, r) ==
    IF ~s.grid_snap_enabled THEN r = <<x, y>>
    ELSE (Lt(Zero, s.time_grid_size) /\ Lt(Zero, s.value_grid_size)) =>
             /\ NearestMultiple(r[2], y, s.value_grid_size)
             /\ \/ Le(Zero, r[1]) /\ NearestMultiple(r[1], x, s.time_grid_size)
                \/ r[1] = Zero /\ Lt(x, Neg(Half(s.time_grid_size)))

\* the time t is at least half of min_offset away from the times of others
FreeAmong(s, others, t) ==
    \A i \in 1..Len(others) :
        ~Lt(Abs(Sub(others[i][1], t)), Half(min_offset(s)))

\* new is others with one more point, of value v, at time t if t is free
\* among the others and at t plus a multiple of min_offset if not
StoredNear(s, new, others, t, v) ==
    \E i \in 1..Len(new) :
        /\ ListDel(new, i - 1) = others
        /\ new[i][2] = v
        /\ IF FreeAmong(s, others, t) THEN new[i][1] = t
           ELSE \E k \in 1..max_attempts :
                    new[i][1] = Add(t, Mul(min_offset(s), D(k, 0)))

\* new is others with one more point, (t, v)
StoredAt(new, others, t, v) ==
    \E i \in 1..Len(new) : ListDel(new, i - 1) = others /\ new[i] = <<t, v>>

ParseRuns == outcome' \in {"parsed", "rejected"}

C13_Guarded ==
    /\ [][pc # "idle" \/ pc' # "idle" => after_calls' = after_calls]_vars
    /\ [](pc = "writing" =>
              /\ updating_from_plot
              /\ on_pwl_text_change(write_text(Self)).after_calls = after_calls)
    /\ [](pc = "written" => updating_from_plot)
    /\ [](updating_from_plot => on_pwl_text_change(Self) = Self)
    /\ [](pc = "idle" => ~updating_from_plot)

\* generate_pwl_text has rewritten a typed text with the flag still set,
\* a parse of the typed text pending
C13_RewrittenUnderFlag ==
    /\ pc = "written"
    /\ updating_from_plot
    /\ after_calls # {}
    /\ pwl_text = pwl_cmd(pwl_points)

\* C14: after any sequence of zooms, pans (buttons and drag), wheel zooms,
\* Auto Scale, edits of the range spin boxes and loads, x_min >= 0.
C14_TimeMinNotNegative == Le(Zero, x_min)

\* the window was clamped after a zoom out of the initial one
C14_ClampedAfterZoomOut ==
    /\ moves = 1
    /\ x_min = Zero
    /\ x_max = D(15, 0)
    /\ y_min = D(-1, 1)

\* the time window of r is lo..hi moved right to start at 0, if lo < 0
ShiftedFrom(lo, hi, r) ==
    Lt(lo, Zero) => r.x_min = Zero /\ r.x_max = Sub(hi, lo)

\* the time window pan_left computes
PanLeftWindow ==
    LET shift == Mul(Sub(x_max, x_min), D(25, -2))
    IN  <<Sub(x_min, shift), Sub(x_max, shift)>>

\* the time window a drag from pan_start to the pointer at x computes
DragWindow(pan_start, x) ==
    <<Add(x_min, Sub(pan_start[1], x)), Add(x_max, Sub(pan_start[1], x))>>

\* the time window around centre with the span times factor
ZoomWindow(centre, factor) ==
    LET half == Half(Mul(Sub(x_max, x_min), factor))
    IN  <<Sub(centre, half), Add(centre, half)>>

\* the time window auto_scale computes: the times with a margin on both
\* sides, in display units
AutoWindow ==
    LET times == {pwl_points[i][1] : i \in 1..Len(pwl_points)}
    IN  <<DivPow10(Sub(MinOf(times), margin(times)), time_scale(Self)),
          DivPow10(Add(MaxOf(times), margin(times)), time_scale(Self))>>

PanLeftShifts == ShiftedFrom(PanLeftWindow[1], PanLeftWindow[2], pan_left(Self))

DragShifts ==
    \A pan_start \in PanStart, to \in PanTo :
        ShiftedFrom(DragWindow(pan_start, to[1])[1], DragWindow(pan_start, to[1])[2],
                    on_motion_panning(Self, pan_start, to[1], to[2]))

ZoomInShifts ==
    LET w == ZoomWindow(Half(Add(x_min, x_max)), D(5, -1))
    IN  ShiftedFrom(w[1], w[2], zoom_in(Self))

ZoomOutShifts ==
    LET w == ZoomWindow(Half(Add(x_min, x_max)), D(2, 0))
    IN  ShiftedFrom(w[1], w[2], zoom_out(Self))

ScrollShifts ==
    \A button \in {"up", "down"}, key \in {"shift", "none"}, at \in ScrollAt :
        LET w == ZoomWindow(at[1], IF button = "up" THEN D(9, -1) ELSE D(11, -1))
        IN  ShiftedFrom(w[1], w[2], on_scroll(Self, button, key, at[1], at[2]))

AutoScaleShifts ==
    pwl_points # <<>> => ShiftedFrom(AutoWindow[1], AutoWindow[2], auto_scale(Self))

\* C15: whenever pan_left, a drag pan, zoom_in, zoom_out, on_scroll or
\* auto_scale computes a time window with a negative lower bound, the
\* window it sets starts at 0 and ends at the computed upper bound raised
\* by the clamped amount, so that the span is the computed one.
C15_ShiftedNotShrunk ==
    /\ PanLeftShifts
    /\ DragShifts
    /\ ZoomInShifts
    /\ ZoomOutShifts
    /\ ScrollShifts
    /\ AutoScaleShifts

\* the spans of the window of r are factor times those of the current one
Scales(r, factor) ==
    /\ Sub(r.x_max, r.x_min) = Mul(Sub(x_max, x_min), factor)
    /\ Sub(r.y_max, r.y_min) = Mul(Sub(y_max, y_min), factor)

\* C16: zoom_in multiplies the spans of both ranges by 0.5 and zoom_out by
\* 2, for every window with x_min >= 0; zoom_out after zoom_in, and
\* zoom_in after zoom_out, give back the original bounds.
C16_ZoomFactors ==
    Le(Zero, x_min) =>
        /\ Scales(zoom_in(Self), D(5, -1))
        /\ Scales(zoom_out(Self), D(2, 0))
        /\ ViewState(zoom_out(zoom_in(Self))) = ViewState(Self)
        /\ ViewState(zoom_in(zoom_out(Self))) = ViewState(Self)

\* the half of C16 that is about zoom_in
ZoomInHalves == Scales(zoom_in(Self), D(5, -1))

\* the half of the round trip that starts with zoom_in
ZoomInThenOut == ViewState(zoom_out(zoom_in(Self))) = ViewState(Self)

\* C17: after auto_scale on a store of at least one point, x_min < x_max
\* and y_min < y_max, also when all points share a time or a value, and
\* every stored point, in display units, lies inside the window.
C17_AutoScaleShowsAll ==
    pwl_points # <<>> =>
        LET r == auto_scale(Self)
        IN  /\ Lt(r.x_min, r.x_max)
            /\ Lt(r.y_min, r.y_max)
            /\ \A i \in 1..Len(pwl_points) :
                   LET t == DivPow10(pwl_points[i][1], time_scale(Self))
                       v == DivPow10(pwl_points[i][2], value_scale(Self))
                   IN  /\ Le(r.x_min, t) /\ Le(t, r.x_max)
                       /\ Le(r.y_min, v) /\ Le(v, r.y_max)

\* Auto Scale has set the window for a store of one point
C17_OnePointScaled ==
    /\ Len(pwl_points) = 1
    /\ moves = 0
    /\ x_min = Zero
    /\ x_max = D(10000026, -1)
    /\ y_max = D(10014, -1)

\* |dt| + |dv| in display units from (x, y) to point i (from 1)
L1(x, y, i) ==
    Add(Abs(Sub(DivPow10(pwl_points[i][1], time_scale(Self)), x)),
        Abs(Sub(DivPow10(pwl_points[i][2], value_scale(Self)), y)))

\* the points within the selection tolerance of (x, y)
Hits(x, y) ==
    {i \in 1..Len(pwl_points) :
        Lt(L1(x, y, i),
           Mul(D(1, -1), Max(Sub(x_max, x_min), Sub(y_max, y_min))))}

\* C18: a single left click at (x, y) selects the lowest index among the
\* points at the smallest L1 distance if that distance is below 0.1 times
\* the larger span of the window, selects nothing otherwise, and leaves
\* the store as it is.
C18_HitTest ==
    \A x \in HitX, y \in HitY :
        LET r == on_click(Self, x, y, FALSE)
        IN  /\ r.pwl_points = pwl_points
            /\ IF Hits(x, y) = {} THEN r.selected_point = None
               ELSE \E i \in Hits(x, y) :
                        /\ r.selected_point = i - 1
                        /\ \A j \in 1..Len(pwl_points) :
                               /\ Le(L1(x, y, i), L1(x, y, j))
                               /\ j < i => Lt(L1(x, y, i), L1(x, y, j))

\* a click half way between the two initial points has selected the first
\* one, in a window higher than wide
C18_FirstOfTwoHits ==
    /\ selected_point = 0
    /\ Hits(D(5, -1), Zero) = {1, 2}
    /\ L1(D(5, -1), Zero, 1) = L1(D(5, -1), Zero, 2)
    /\ Lt(Sub(x_max, x_min), Sub(y_max, y_min))

\* C19: in every state reached by source switches, unit changes and loads
\* (successful or failed), value_unit is a symbol of the voltage table when
\* source_type is Voltage and of the current table when it is Current.
C19_ValueUnitOfSource ==
    /\ source_type = "Voltage" => value_unit \in DOMAIN voltage_prefixes
    /\ source_type = "Current" => value_unit \in DOMAIN current_prefixes

\* C20: in every state reached by grid size edits (also of values <= 0),
\* toggles of the snap check box and loads, time_grid_size and
\* value_grid_size are both strictly positive.
C20_GridSizesPositive ==
    /\ Lt(Zero, time_grid_size)
    /\ Lt(Zero, value_grid_size)

\* the Point Store, UnitSystem, ViewState, GridConfig and Selection of s
Loadable(s) ==
    <<s.pwl_points, s.source_type, s.time_unit, s.value_unit, ViewState(s),
      GridConfig(s), s.selected_point>>

\* C21: a load that ends with the Error box leaves the Point Store, the
\* UnitSystem, the ViewState, the GridConfig and the Selection as they
\* were before it.
C21_FailedLoadKeepsState ==
    \A data \in ConfigDocs :
        load_file(Self, data).outcome = "Error" =>
            Loadable(load_file(Self, data)) = Loadable(Self)

\* C22: a unit change keeps the Point Store, the text format(store)
\* produces and the four view bounds; the text widget afterwards holds
\* what it held or that formatted text, and nothing but the two unit
\* symbols differs from the state before.
C22_UnitChangeKeepsNumbers ==
    \A vars_read \in UnitPicks :
        LET r == on_unit_change(Self, vars_read[1], vars_read[2])
        IN  /\ r.pwl_points = pwl_points
            /\ ViewState(r) = ViewState(Self)
            /\ pwl_cmd(r.pwl_points) = pwl_cmd(pwl_points)
            /\ r.pwl_text \in {pwl_text, pwl_cmd(pwl_points)}
            /\ [r EXCEPT !.time_unit = time_unit, !.value_unit = value_unit,
                         !.pwl_text = pwl_text] = Self

\* the time unit is no longer the initial one and the window, the points
\* and the text are the initial ones
C22_UnitChanged ==
    /\ time_unit = "ns"
    /\ outcome = "none"
    /\ pwl_points = init_fields.pwl_points
    /\ pwl_text = pwl_cmd(pwl_points)
    /\ ViewState(Self) = <<Zero, D(1, 1), D(-5, 0), D(5, 0)>>

\* C23: every step that changes the Point Store leaves the text widget
\* holding pwl_cmd of the new store: the wrapped pairs in ascending time
\* order, or the message for fewer than 2 points.
C23_TextFollowsStore ==
    [][pwl_points' # pwl_points => pwl_text' = pwl_cmd(pwl_points')]_vars

\* target times: those of ProbeTargets, in seconds, and two negative ones,
\* one min_offset and a million min_offset below 0
ProbeTimes ==
    {Mul(x, time_scale(Self)) : x \in ProbeTargets} \cup {D(-1, -12), D(-1, -6)}

\* the indexes find_unique_time is called with: none (insert), the selection
\* (update)
Excludes == {None} \cup {i \in {selected_point} : InRange(Self, i)}

\* find_unique_time(target_time, exclude_index) runs its loop at most
\* max_attempts times and returns a time >= 0 that no stored time other
\* than the excluded one is closer to than gap
FreeBy(target_time, exclude_index, gap) ==
    /\ Len(probes(Self, target_time, exclude_index)) <= max_attempts
    /\ \E r \in {find_unique_time(Self, target_time, exclude_index)} :
           /\ Le(Zero, r)
           /\ \A e \in existing_times(Self, exclude_index) : ~Lt(Abs(Sub(r, e)), gap)

C25_LeftBeforeFurtherRight ==
    \A target_time \in ProbeTimes, exclude_index \in Excludes :
        \E left \in {Sub(target_time, min_offset(Self))},
           right \in {Add(target_time, min_offset(Self))} :
            (/\ is_duplicate(Self, exclude_index, target_time)
             /\ is_duplicate(Self, exclude_index, right)
             /\ ~is_duplicate(Self, exclude_index, left)
             /\ Le(Zero, left))
            => find_unique_time(Self, target_time, exclude_index) = left

\* the (time, value) pair move_point(x, y) writes to the selected point
Written(x, y) ==
    LET snapped == snap_to_grid(Self, x, y)
    IN  <<find_unique_time(Self, Max(Zero, Mul(snapped[1], time_scale(Self))),
                           selected_point),
          Mul(snapped[2], value_scale(Self))>>

\* C26: after move_point on the selected point the point stored at Selection
\* is the pair this update wrote, and the other points are those the store
\* held before.
C26_SelectionFollowsMovedPoint ==
    \A x \in EditX, y \in ClickY :
        InRange(Self, selected_point) =>
            \E r \in {move_point(Self, x, y)} :
                /\ InRange(r, r.selected_point)
                /\ r.pwl_points[r.selected_point + 1] = Written(x, y)
                /\ SameBag(ListDel(r.pwl_points, r.selected_point),
                           ListDel(pwl_points, selected_point))

\* c lies at the same fraction of lo2..hi2 as of lo1..hi1
SameFraction(c, lo1, hi1, lo2, hi2) ==
    Mul(Sub(c, lo1), Sub(hi2, lo2)) = Mul(Sub(c, lo2), Sub(hi1, lo1))

\* C27: a wheel step with the cursor inside the window leaves the cursor's
\* coordinate at the same fraction of the range on every axis it zooms, and
\* with control (value axis only) or shift (time axis only) it leaves the
\* bounds of the other axis as they were.
C27_CursorStaysPut ==
    \A at \in ScrollAt, button \in {"up", "down"}, key \in {"none", "control", "shift"} :
        (/\ Le(x_min, at[1]) /\ Le(at[1], x_max)
         /\ Le(y_min, at[2]) /\ Le(at[2], y_max))
        => \E r \in {on_scroll(Self, button, key, at[1], at[2])} :
               /\ key # "control" =>
                      SameFraction(at[1], x_min, x_max, r.x_min, r.x_max)
               /\ key # "shift" =>
                      SameFraction(at[2], y_min, y_max, r.y_min, r.y_max)
               /\ key = "control" => r.x_min = x_min /\ r.x_max = x_max
               /\ key = "shift" => r.y_min = y_min /\ r.y_max = y_max

\* C28: Selection is none or an index of the Point Store, and it is none in
\* the state a successful parse or a load leaves (delete_point clears it in
\* the same step in which it removes the point).
C28_SelectionValid ==
    /\ selected_point = None \/ InRange(Self, selected_point)
    /\ outcome \in {"parsed", "Loaded"} => selected_point = None
    /\ \E r \in {delete_point(Self)} :
           r.pwl_points # pwl_points => r.selected_point = None

\* C29: with a parse pending, a click (a selection, a deselection or the
\* insert of a double click) followed by the pending parse leaves the
\* Selection and the points as the click left them.
C29_ParseKeepsGesture ==
    \A c \in after_calls, x \in ClickX, y \in ClickY, dblclick \in BOOLEAN :
        \E gesture \in {on_click(Self, x, y, dblclick)} :
            \E r \in {fire(gesture, c)} :
                /\ r.selected_point = gesture.selected_point
                /\ r.pwl_points = gesture.pwl_points

\* the document data without the field key
Without(data, key) == [k \in DOMAIN data \ {key} |-> data[k]]

\* what a load leaves in the field(s) read from the key of a document
FieldOf(s, key) ==
    IF key = "x_range" THEN <<s.x_min, s.x_max>>
    ELSE IF key = "y_range" THEN <<s.y_min, s.y_max>>
    ELSE s[key]

\* the defaults of a load
Defaults ==
    [pwl_points |-> <<<<Zero, Zero>>, <<D(1, -6), Zero>>>>,
     source_type |-> "Voltage", time_unit |-> "us", value_unit |-> "mV",
     x_range |-> <<Zero, D(1, 1)>>, y_range |-> <<D(-5, 0), D(5, 0)>>,
     grid_snap_enabled |-> FALSE, time_grid_size |-> One, value_grid_size |-> One]

\* the value unit a successful load leaves for a document naming source and
\* unit: the unit if the table of the source has it, else mV or mA
UnitKept(source, unit) ==
    IF source = "Voltage"
    THEN IF unit \in DOMAIN voltage_prefixes THEN unit ELSE "mV"
    ELSE IF unit \in DOMAIN current_prefixes THEN unit ELSE "mA"

\* the load into the state s of the document save_file writes succeeds and
\* leaves every saved field as it is now, the value unit as UnitKept has it
Restores(s) ==
    \E r \in {load_file(s, save_file(Self))} :
        /\ r.outcome = "Loaded"
        /\ \A key \in DOMAIN Defaults \ {"value_unit"} :
               FieldOf(r, key) = FieldOf(Self, key)
        /\ r.value_unit = UnitKept(source_type, value_unit)

====
